---- MODULE Spec2Model ----
(***************************************************************************)
(* get_weather_forecast of kadai6-2.py: one HTTP GET, navigation of the    *)
(* fetched JSON document, an index of the temperature block keyed by the   *)
(* time-define string, and one output row per weather time-define.         *)
(*                                                                         *)
(* Python dicts are functions whose DOMAIN is the set of keys present,     *)
(* Python lists are sequences (the code's 0-based index n is element n+1), *)
(* and a time-define string is the sequence of its characters, so that     *)
(* parsing and formatting a date are computed character by character.      *)
(* An expression that can raise yields a record whose field exc names the  *)
(* exception class ("none" when it yields the value val).                  *)
(***************************************************************************)
EXTENDS Integers, Sequences, FiniteSets, TLC

VARIABLES pc, result, exc, response, data, publishing_office,
          temp_time_defines, temps_min, temps_max, temp_dict, ti,
          weather_time_defines, weather_codes, forecast_list, i, df

vars == <<pc, result, exc, response, data, publishing_office,
          temp_time_defines, temps_min, temps_max, temp_dict, ti,
          weather_time_defines, weather_codes, forecast_list, i, df>>

\* Longest weather timeDefines and longest temperature timeDefines of the
\* documents the model fetches.
MaxWeather == 2
MaxTemp == 2

-----------------------------------------------------------------------------
(* Character strings *)

Digits == <<"0", "1", "2", "3", "4", "5", "6", "7", "8", "9">>

IsDigit(c) == \E n \in 1..10 : Digits[n] = c

DigitVal(c) == (CHOOSE n \in 1..10 : Digits[n] = c) - 1

AllDigits(s, from, to) == \A p \in from..to : IsDigit(s[p])

Num2(s, p) == 10 * DigitVal(s[p]) + DigitVal(s[p + 1])

Num4(s, p) == 100 * Num2(s, p) + Num2(s, p + 2)

IsLeap(y) == (y % 4 = 0 /\ y % 100 # 0) \/ y % 400 = 0

DaysInMonth(y, m) ==
    IF m = 2 THEN (IF IsLeap(y) THEN 29 ELSE 28)
    ELSE IF m \in {4, 6, 9, 11} THEN 30 ELSE 31

\* The time-of-day and offset part "Thh:mm:ss+hh:mm" of an ISO-8601 string.
ValidTimePart(s) ==
    /\ Len(s) = 25
    /\ s[11] = "T"
    /\ AllDigits(s, 12, 13) /\ s[14] = ":"
    /\ AllDigits(s, 15, 16) /\ s[17] = ":"
    /\ AllDigits(s, 18, 19)
    /\ s[20] \in {"+", "-"}
    /\ AllDigits(s, 21, 22) /\ s[23] = ":"
    /\ AllDigits(s, 24, 25)
    /\ Num2(s, 12) < 24 /\ Num2(s, 15) < 60 /\ Num2(s, 18) < 60
    /\ Num2(s, 21) < 24 /\ Num2(s, 24) < 60

\* pd.to_datetime on an ISO-8601 string: the timestamp keeps the wall-clock
\* fields of the string's own offset; a string that is no date raises
\* ValueError.
ToDatetime(s) ==
    IF /\ Len(s) >= 10
       /\ AllDigits(s, 1, 4) /\ s[5] = "-"
       /\ AllDigits(s, 6, 7) /\ s[8] = "-"
       /\ AllDigits(s, 9, 10)
       /\ Num2(s, 6) \in 1..12
       /\ Num2(s, 9) \in 1..DaysInMonth(Num4(s, 1), Num2(s, 6))
       /\ (Len(s) = 10 \/ ValidTimePart(s))
    THEN [exc |-> "none",
          val |-> [year |-> Num4(s, 1), month |-> Num2(s, 6), day |-> Num2(s, 9)]]
    ELSE [exc |-> "ValueError"]

Pad2(n) == <<Digits[(n \div 10) + 1], Digits[(n % 10) + 1]>>

\* Timestamp.strftime('%Y-%m-%d')
Strftime(t) ==
    Pad2(t.year \div 100) \o Pad2(t.year % 100) \o <<"-">> \o Pad2(t.month)
        \o <<"-">> \o Pad2(t.day)

-----------------------------------------------------------------------------
(* Dict and list access *)

\* d[k] on a dict
Index(d, k) ==
    IF k \in DOMAIN d THEN [exc |-> "none", val |-> d[k]] ELSE [exc |-> "KeyError"]

\* s[n] on a list, n counted from 0
ListIndex(s, n) ==
    IF n < Len(s) THEN [exc |-> "none", val |-> s[n + 1]] ELSE [exc |-> "IndexError"]

\* d.get(k, default)
Get(d, k, default) == IF k \in DOMAIN d THEN d[k] ELSE default

\* data[0]['timeSeries'][n]
TimeSeriesBlock(dat, n) ==
    LET a == ListIndex(dat, 0) IN
    IF a.exc # "none" THEN a
    ELSE LET b == Index(a.val, "timeSeries") IN
         IF b.exc # "none" THEN b ELSE ListIndex(b.val, n)

\* data[0]['publishingOffice']
PublishingOffice(dat) ==
    LET a == ListIndex(dat, 0) IN
    IF a.exc # "none" THEN a ELSE Index(a.val, "publishingOffice")

\* temp_timeseries.get('areas', [{}])[0]
TempAreaData(block) == ListIndex(Get(block, "areas", << <<>> >>), 0)

\* temp_timeseries.get('timeDefines', [])
TempTimeDefines(block) == Get(block, "timeDefines", <<>>)

WeatherCodesLenient(block) ==
    [exc |-> "none",
     val |-> Get(Get(Get(block, "areas", << <<>> >>), 1, <<>>), "weatherCodes", <<>>)]

\* weather_timeseries['areas'][0]['weatherCodes']
WeatherCodes(block) ==
    LET a == Index(block, "areas") IN
    IF a.exc # "none" THEN a
    ELSE LET b == ListIndex(a.val, 0) IN
         IF b.exc # "none" THEN b ELSE Index(b.val, "weatherCodes")

TempEntryBothOrNone(n) ==
    IF n < Len(temps_min) /\ n < Len(temps_max)
    THEN [min |-> temps_min[n + 1], max |-> temps_max[n + 1]]
    ELSE [min |-> "-", max |-> "-"]

\* the value stored under temp_dict[date_str] for index n
TempEntry(n) ==
    [min |-> IF n < Len(temps_min) THEN temps_min[n + 1] ELSE "-",
     max |-> IF n < Len(temps_max) THEN temps_max[n + 1] ELSE "-"]

\* temp_dict[key] = value
DictSet(d, key, value) ==
    [k \in DOMAIN d \cup {key} |-> IF k = key THEN value ELSE d[k]]

LookupByCalendarDate(d, date_str, field) ==
    LET same == {k \in DOMAIN d : SubSeq(k, 1, 10) = SubSeq(date_str, 1, 10)} IN
    IF same = {} THEN "-" ELSE (d[CHOOSE k \in same : TRUE])[field]

\* temp_dict.get(date_str, {}).get(field, "-")
Lookup(d, date_str, field) ==
    IF date_str \in DOMAIN d THEN Get(d[date_str], field, "-") ELSE "-"

WeatherCodeOrDash(codes, n) ==
    [exc |-> "none", val |-> IF n < Len(codes) THEN codes[n + 1] ELSE "-"]

\* weather_codes[i]
WeatherCode(codes, n) == ListIndex(codes, n)

RowWithFirstCode(date, code, min_temp, max_temp) ==
    [date |-> date, weatherCode |-> weather_codes[1],
     minTemp |-> min_temp, maxTemp |-> max_temp]

\* the dict appended to forecast_list
Row(date, code, min_temp, max_temp) ==
    [date |-> date, weatherCode |-> code, minTemp |-> min_temp, maxTemp |-> max_temp]

RECURSIVE DropDuplicateDates(_)
DropDuplicateDates(list) ==
    IF list = <<>> THEN <<>>
    ELSE LET front == DropDuplicateDates(SubSeq(list, 1, Len(list) - 1))
             last == list[Len(list)] IN
         IF \E p \in 1..Len(front) : front[p].date = last.date
         THEN front ELSE Append(front, last)

\* pd.DataFrame(forecast_list): one table row per list element, in order
DataFrame(list) == list

-----------------------------------------------------------------------------
(* Exceptions *)

RequestExceptions == {"ConnectionError", "HTTPError", "JSONDecodeError"}

NeverRaiseForStatus(status) == "none"

\* response.raise_for_status()
RaiseForStatus(status) == IF status >= 400 THEN "HTTPError" ELSE "none"

CaughtKeyErrorOnly(e) ==
    IF e \in RequestExceptions THEN "none"
    ELSE IF e = "KeyError" THEN "none"
    ELSE "raised"

\* The two except clauses: what the caller gets when e is raised in the try
\* block ("none": the function returns None; "raised": e escapes).
Caught(e) ==
    IF e \in RequestExceptions THEN "none"
    ELSE IF e \in {"IndexError", "KeyError"} THEN "none"
    ELSE "raised"

-----------------------------------------------------------------------------
(* The documents the API may answer with *)

Date0601 == <<"2", "0", "2", "4", "-", "0", "6", "-", "0", "1">>
Date0602 == <<"2", "0", "2", "4", "-", "0", "6", "-", "0", "2">>
Date0631 == <<"2", "0", "2", "4", "-", "0", "6", "-", "3", "1">>
Time00 == <<"T", "0", "0", ":", "0", "0", ":", "0", "0", "+", "0", "9", ":", "0", "0">>
Time12 == <<"T", "1", "2", ":", "0", "0", ":", "0", "0", "+", "0", "9", ":", "0", "0">>

TD_A == Date0601 \o Time00
TD_A2 == Date0601 \o Time12
TD_B == Date0602 \o Time00
\* June 31st: no date
TD_BAD == Date0631 \o Time00

WeatherTimeStrings == {TD_A, TD_A2, TD_B, TD_BAD}
TempTimeStrings == {TD_A, TD_B}

CodesFull == <<"100", "200", "300", "101", "201", "301">>
TempsMinFull == <<"18", "17", "16", "15", "14">>
TempsMaxFull == <<"25", "26", "27", "28", "29">>

SeqsUpTo(S, n) == UNION {[1..k -> S] : k \in 0..n}

Prefix(s, n) == SubSeq(s, 1, n)

Doc(wtd, codes, ttd, tmin, tmax) ==
    << [publishingOffice |-> "JMA",
        timeSeries |->
          << [timeDefines |-> wtd, areas |-> << [weatherCodes |-> codes] >>],
             [timeDefines |-> ttd,
              areas |-> << [tempsMin |-> tmin, tempsMax |-> tmax] >>] >>] >>

\* Documents of the expected shape, of every content within the bounds.
ShapedDocs ==
    {Doc(wtd, Prefix(CodesFull, nc), ttd, Prefix(TempsMinFull, nmin),
         Prefix(TempsMaxFull, nmax)) :
        wtd \in SeqsUpTo(WeatherTimeStrings, MaxWeather),
        nc \in 0..(MaxWeather + 1),
        ttd \in SeqsUpTo(TempTimeStrings, MaxTemp),
        nmin \in 0..MaxTemp, nmax \in 0..MaxTemp}

Drop(d, k) == [x \in DOMAIN d \ {k} |-> d[x]]

WithTimeSeries(d, ts) == << [d[1] EXCEPT !.timeSeries = ts] >>

WithArea(block, area) == [block EXCEPT !.areas = <<area>>]

Variants ==
    {"emptyTop", "noOffice", "noTimeSeries", "noBlocks", "oneBlock", "threeBlocks",
     "w_noTimeDefines", "w_noAreas", "w_emptyAreas", "w_noWeatherCodes",
     "t_noTimeDefines", "t_noAreas", "t_emptyAreas", "t_noTempsMin", "t_noTempsMax"}

\* d with one key or element removed (or, for threeBlocks, one block added).
Variant(d, v) ==
    LET w == d[1].timeSeries[1]
        t == d[1].timeSeries[2] IN
    CASE v = "emptyTop" -> <<>>
      [] v = "noOffice" -> << Drop(d[1], "publishingOffice") >>
      [] v = "noTimeSeries" -> << Drop(d[1], "timeSeries") >>
      [] v = "noBlocks" -> WithTimeSeries(d, <<>>)
      [] v = "oneBlock" -> WithTimeSeries(d, <<w>>)
      [] v = "threeBlocks" -> WithTimeSeries(d, <<w, t, t>>)
      [] v = "w_noTimeDefines" -> WithTimeSeries(d, <<Drop(w, "timeDefines"), t>>)
      [] v = "w_noAreas" -> WithTimeSeries(d, <<Drop(w, "areas"), t>>)
      [] v = "w_emptyAreas" -> WithTimeSeries(d, <<[w EXCEPT !.areas = <<>>], t>>)
      [] v = "w_noWeatherCodes" ->
            WithTimeSeries(d, <<WithArea(w, Drop(w.areas[1], "weatherCodes")), t>>)
      [] v = "t_noTimeDefines" -> WithTimeSeries(d, <<w, Drop(t, "timeDefines")>>)
      [] v = "t_noAreas" -> WithTimeSeries(d, <<w, Drop(t, "areas")>>)
      [] v = "t_emptyAreas" -> WithTimeSeries(d, <<w, [t EXCEPT !.areas = <<>>]>>)
      [] v = "t_noTempsMin" ->
            WithTimeSeries(d, <<w, WithArea(t, Drop(t.areas[1], "tempsMin"))>>)
      [] v = "t_noTempsMax" ->
            WithTimeSeries(d, <<w, WithArea(t, Drop(t.areas[1], "tempsMax"))>>)

\* The documents the variants are taken of: every weather timeDefines, with
\* weatherCodes of the same length or one shorter.
VariantBase ==
    UNION {{Doc(wtd, Prefix(CodesFull, nc), <<TD_A, TD_B>>, Prefix(TempsMinFull, 2),
                Prefix(TempsMaxFull, 1)) :
               nc \in {n \in 0..MaxWeather : n \in {Len(wtd) - 1, Len(wtd)}}} :
           wtd \in SeqsUpTo(WeatherTimeStrings, MaxWeather)}

VariantDocs == {Variant(d, v) : d \in VariantBase, v \in Variants}

Docs == ShapedDocs \cup VariantDocs

\* What requests.get and response.json() can meet: no connection, or a
\* response with a status and a body that is a JSON document or not.
FetchOutcomes ==
    {[connected |-> FALSE, status |-> 0, json |-> FALSE, doc |-> <<>>]}
    \cup {[connected |-> TRUE, status |-> 200, json |-> TRUE, doc |-> d] : d \in Docs}
    \cup {[connected |-> TRUE, status |-> s, json |-> FALSE, doc |-> <<>>] :
            s \in {200, 404, 500}}
    \cup {[connected |-> TRUE, status |-> 500, json |-> TRUE, doc |-> <<>>]}

\* response.json() on a body that is no JSON raises requests' JSONDecodeError
\* (a RequestException) or, with older versions of requests, a ValueError.
JsonErrors == {"JSONDecodeError", "ValueError"}

-----------------------------------------------------------------------------
(* The steps of get_weather_forecast *)

Init ==
    /\ pc = "fetch"
    /\ result = "pending"
    /\ exc = "none"
    /\ response = [connected |-> FALSE, status |-> 0, json |-> FALSE]
    /\ data = <<>>
    /\ publishing_office = ""
    /\ temp_time_defines = <<>>
    /\ temps_min = <<>>
    /\ temps_max = <<>>
    /\ temp_dict = <<>>
    /\ ti = 0
    /\ weather_time_defines = <<>>
    /\ weather_codes = <<>>
    /\ forecast_list = <<>>
    /\ i = 0
    /\ df = <<>>

\* e is raised inside the try block: the call ends where it is.
Raise(e) ==
    /\ exc' = e
    /\ result' = Caught(e)

NoRaise == UNCHANGED <<exc, result>>

Fetch ==
    /\ pc = "fetch" /\ result = "pending"
    /\ \E o \in FetchOutcomes, je \in JsonErrors :
         /\ response' = [connected |-> o.connected, status |-> o.status, json |-> o.json]
         /\ IF ~o.connected
            THEN Raise("ConnectionError") /\ UNCHANGED <<pc, data>>
            ELSE IF RaiseForStatus(o.status) # "none"
            THEN Raise(RaiseForStatus(o.status)) /\ UNCHANGED <<pc, data>>
            ELSE IF ~o.json
            THEN Raise(je) /\ UNCHANGED <<pc, data>>
            ELSE data' = o.doc /\ pc' = "office" /\ NoRaise
    /\ UNCHANGED <<publishing_office, temp_time_defines, temps_min, temps_max,
                   temp_dict, ti, weather_time_defines, weather_codes,
                   forecast_list, i, df>>

Office ==
    /\ pc = "office" /\ result = "pending"
    /\ LET o == PublishingOffice(data) IN
       IF o.exc # "none"
       THEN Raise(o.exc) /\ UNCHANGED <<pc, publishing_office>>
       ELSE publishing_office' = o.val /\ pc' = "temp_block" /\ NoRaise
    /\ UNCHANGED <<response, data, temp_time_defines, temps_min, temps_max,
                   temp_dict, ti, weather_time_defines, weather_codes,
                   forecast_list, i, df>>

TempBlock ==
    /\ pc = "temp_block" /\ result = "pending"
    /\ LET b == TimeSeriesBlock(data, 1) IN
       IF b.exc # "none"
       THEN Raise(b.exc)
            /\ UNCHANGED <<pc, temp_time_defines, temps_min, temps_max, temp_dict, ti>>
       ELSE LET a == TempAreaData(b.val) IN
            IF a.exc # "none"
            THEN Raise(a.exc)
                 /\ temp_dict' = <<>>
                 /\ UNCHANGED <<pc, temp_time_defines, temps_min, temps_max, ti>>
            ELSE /\ temp_dict' = <<>>
                 /\ temp_time_defines' = TempTimeDefines(b.val)
                 /\ temps_min' = Get(a.val, "tempsMin", <<>>)
                 /\ temps_max' = Get(a.val, "tempsMax", <<>>)
                 /\ ti' = 0
                 /\ pc' = "temp_loop"
                 /\ NoRaise
    /\ UNCHANGED <<response, data, publishing_office, weather_time_defines,
                   weather_codes, forecast_list, i, df>>

\* One iteration of the loop over enumerate(temp_time_defines), or its end.
TempLoop ==
    /\ pc = "temp_loop" /\ result = "pending"
    /\ IF ti < Len(temp_time_defines)
       THEN /\ temp_dict' = DictSet(temp_dict, temp_time_defines[ti + 1], TempEntry(ti))
            /\ ti' = ti + 1
            /\ UNCHANGED pc
       ELSE pc' = "weather_block" /\ UNCHANGED <<temp_dict, ti>>
    /\ UNCHANGED <<result, exc, response, data, publishing_office, temp_time_defines,
                   temps_min, temps_max, weather_time_defines, weather_codes,
                   forecast_list, i, df>>

WeatherBlock ==
    /\ pc = "weather_block" /\ result = "pending"
    /\ LET b == TimeSeriesBlock(data, 0) IN
       IF b.exc # "none"
       THEN Raise(b.exc)
            /\ UNCHANGED <<pc, weather_time_defines, weather_codes, forecast_list, i>>
       ELSE LET td == Index(b.val, "timeDefines") IN
            IF td.exc # "none"
            THEN Raise(td.exc)
                 /\ UNCHANGED <<pc, weather_time_defines, weather_codes, forecast_list, i>>
            ELSE LET c == WeatherCodes(b.val) IN
                 IF c.exc # "none"
                 THEN Raise(c.exc)
                      /\ weather_time_defines' = td.val
                      /\ UNCHANGED <<pc, weather_codes, forecast_list, i>>
                 ELSE /\ weather_time_defines' = td.val
                      /\ weather_codes' = c.val
                      /\ forecast_list' = <<>>
                      /\ i' = 0
                      /\ pc' = "row_loop"
                      /\ NoRaise
    /\ UNCHANGED <<response, data, publishing_office, temp_time_defines, temps_min,
                   temps_max, temp_dict, ti, df>>

\* One iteration of the loop over enumerate(weather_time_defines), or its end.
\* The dict literal evaluates the date before weather_codes[i].
RowLoop ==
    /\ pc = "row_loop" /\ result = "pending"
    /\ IF i < Len(weather_time_defines)
       THEN LET date_str == weather_time_defines[i + 1]
                min_temp == Lookup(temp_dict, date_str, "min")
                max_temp == Lookup(temp_dict, date_str, "max")
                t == ToDatetime(date_str) IN
            IF t.exc # "none"
            THEN Raise(t.exc) /\ UNCHANGED <<pc, forecast_list, i>>
            ELSE LET c == WeatherCode(weather_codes, i) IN
                 IF c.exc # "none"
                 THEN Raise(c.exc) /\ UNCHANGED <<pc, forecast_list, i>>
                 ELSE /\ forecast_list' =
                           Append(forecast_list,
                                  Row(Strftime(t.val), c.val, min_temp, max_temp))
                      /\ i' = i + 1
                      /\ UNCHANGED pc
                      /\ NoRaise
       ELSE pc' = "frame" /\ NoRaise /\ UNCHANGED <<forecast_list, i>>
    /\ UNCHANGED <<response, data, publishing_office, temp_time_defines, temps_min,
                   temps_max, temp_dict, ti, weather_time_defines, weather_codes, df>>

\* df = pd.DataFrame(forecast_list); return df
Frame ==
    /\ pc = "frame" /\ result = "pending"
    /\ df' = DataFrame(forecast_list)
    /\ result' = "table"
    /\ pc' = "done"
    /\ UNCHANGED <<exc, response, data, publishing_office, temp_time_defines,
                   temps_min, temps_max, temp_dict, ti, weather_time_defines,
                   weather_codes, forecast_list, i>>

Next == Fetch \/ Office \/ TempBlock \/ TempLoop \/ WeatherBlock \/ RowLoop \/ Frame

Spec == Init /\ [][Next]_vars

-----------------------------------------------------------------------------
(* The fetched document, as the properties below read it *)

Finished == result # "pending"

\* The fetch succeeded: a document was bound to data.
Fetched == pc # "fetch"

HasBlocks(d) ==
    /\ Len(d) >= 1
    /\ "timeSeries" \in DOMAIN d[1]
    /\ Len(d[1].timeSeries) >= 2

WBlock(d) == d[1].timeSeries[1]
TBlock(d) == d[1].timeSeries[2]

WeatherKeysPresent(d) ==
    /\ "timeDefines" \in DOMAIN WBlock(d)
    /\ "areas" \in DOMAIN WBlock(d)
    /\ Len(WBlock(d).areas) >= 1
    /\ "weatherCodes" \in DOMAIN WBlock(d).areas[1]

TempAreasEmpty(d) == "areas" \in DOMAIN TBlock(d) /\ Len(TBlock(d).areas) = 0

TempKeysPresent(d) ==
    /\ "timeDefines" \in DOMAIN TBlock(d)
    /\ "areas" \in DOMAIN TBlock(d)
    /\ Len(TBlock(d).areas) >= 1
    /\ "tempsMin" \in DOMAIN TBlock(d).areas[1]
    /\ "tempsMax" \in DOMAIN TBlock(d).areas[1]

WTD(d) == WBlock(d).timeDefines
WCodes(d) == WBlock(d).areas[1].weatherCodes
TTD(d) == IF "timeDefines" \in DOMAIN TBlock(d) THEN TBlock(d).timeDefines ELSE <<>>
TArea(d) ==
    IF "areas" \in DOMAIN TBlock(d) /\ Len(TBlock(d).areas) >= 1
    THEN TBlock(d).areas[1] ELSE <<>>
TMin(d) == IF "tempsMin" \in DOMAIN TArea(d) THEN TArea(d).tempsMin ELSE <<>>
TMax(d) == IF "tempsMax" \in DOMAIN TArea(d) THEN TArea(d).tempsMax ELSE <<>>

\* The time-define strings of the model that are dates.
DateStrings == {TD_A, TD_A2, TD_B}

AllDates(s) == \A k \in 1..Len(s) : s[k] \in DateStrings

WellFormed(d) ==
    /\ HasBlocks(d)
    /\ "publishingOffice" \in DOMAIN d[1]
    /\ WeatherKeysPresent(d)
    /\ TempKeysPresent(d)
    /\ Len(WCodes(d)) = Len(WTD(d))
    /\ AllDates(WTD(d))

Occurs(s, seq) == \E j \in 1..Len(seq) : seq[j] = s

\* The last position of s in seq.
LastIndex(s, seq) == CHOOSE j \in 1..Len(seq) :
                        seq[j] = s /\ \A m \in (j + 1)..Len(seq) : seq[m] # s

ValueAt(seq, j) == IF j <= Len(seq) THEN seq[j] ELSE "-"

TempLoopDone == pc \in {"weather_block", "row_loop", "frame", "done"}

-----------------------------------------------------------------------------
(* Properties *)

\* C1: a well-formed document that was fetched ends in a table with as many
\* rows as block 0 has weatherCodes, whatever the temperature block holds.
C1_RowCount ==
    (Finished /\ Fetched /\ WellFormed(data))
        => (result = "table" /\ Len(df) = Len(WCodes(data)))

C1_Witness ==
    /\ result = "table" /\ WellFormed(data)
    /\ Len(df) = 2 /\ Len(TTD(data)) = 1 /\ Len(TMin(data)) = 0

\* C2: row k of a returned table carries the calendar date of block 0's
\* timeDefines[k] and weatherCodes[k]; there is one row per weather
\* time-define, in that order.
C2_RowsFollowWeather ==
    result = "table" =>
        /\ Len(df) = Len(WTD(data))
        /\ \A k \in 1..Len(df) :
              /\ df[k].date = SubSeq(WTD(data)[k], 1, 10)
              /\ df[k].weatherCode = WCodes(data)[k]

C2_Witness ==
    /\ result = "table"
    /\ WTD(data) = <<TD_B, TD_A>>
    /\ TTD(data) = <<TD_A, TD_B>>
    /\ df[1].date = Date0602 /\ df[2].date = Date0601

\* C3: in a returned table, a row whose exact time-define string does not
\* occur in the temperature block's timeDefines has the sentinel in both
\* temperature fields, and a row whose string occurs has the min and max
\* recorded for it; an absent string does not stop a well-formed document
\* from yielding its table.
C3_ExactStringLookup ==
    /\ result = "table" =>
          \A k \in 1..Len(df) :
              LET s == WTD(data)[k] IN
              IF ~Occurs(s, TTD(data))
              THEN df[k].minTemp = "-" /\ df[k].maxTemp = "-"
              ELSE /\ df[k].minTemp = ValueAt(TMin(data), LastIndex(s, TTD(data)))
                   /\ df[k].maxTemp = ValueAt(TMax(data), LastIndex(s, TTD(data)))
    /\ (Finished /\ Fetched /\ WellFormed(data)
          /\ \E k \in 1..Len(WTD(data)) : ~Occurs(WTD(data)[k], TTD(data)))
        => result = "table"

C3_Witness ==
    /\ result = "table"
    /\ WTD(data) = <<TD_A, TD_A2>>
    /\ Occurs(TD_A, TTD(data))
    /\ df[1].minTemp = "18" /\ df[1].maxTemp = "25"
    /\ df[2].minTemp = "-" /\ df[2].maxTemp = "-"

\* C4: once the temperature loop has run, the entry of every temperature
\* time-define holds tempsMin[j] when j is in range of tempsMin and the
\* sentinel otherwise, and independently tempsMax[j] or the sentinel (j the
\* last position of the string); the loop raises nothing.
C4_ShortTempsIndependent ==
    /\ pc = "temp_loop" => result = "pending"
    /\ TempLoopDone =>
          /\ DOMAIN temp_dict = {TTD(data)[j] : j \in 1..Len(TTD(data))}
          /\ \A k \in DOMAIN temp_dict :
                /\ temp_dict[k].min = ValueAt(TMin(data), LastIndex(k, TTD(data)))
                /\ temp_dict[k].max = ValueAt(TMax(data), LastIndex(k, TTD(data)))

C4_Witness ==
    /\ pc = "done"
    /\ TTD(data) = <<TD_A, TD_B>>
    /\ Len(TMin(data)) = 1 /\ Len(TMax(data)) = 2
    /\ temp_dict[TD_A].min = "18" /\ temp_dict[TD_A].max = "25"
    /\ temp_dict[TD_B].min = "-" /\ temp_dict[TD_B].max = "26"

\* C5: when the request fails (no connection, or an error status) the call
\* ends with None at the fetch: no document is bound, the temperature index
\* and the row list are never built, no table is made.
C5_TransportFailureNoReshape ==
    ((Finished \/ Fetched) /\ (~response.connected \/ response.status >= 400))
        => /\ result = "none"
           /\ pc = "fetch"
           /\ data = <<>>
           /\ DOMAIN temp_dict = {} /\ ti = 0
           /\ forecast_list = <<>> /\ i = 0
           /\ df = <<>>

C5_Witness ==
    /\ result = "none" /\ pc = "fetch"
    /\ response.connected /\ response.status = 500
    /\ exc = "HTTPError"

\* C6: a fetched document with an empty top level, without timeSeries in
\* element 0, or with fewer than 2 blocks ends with None from the
\* (IndexError, KeyError) clause; nothing escapes.
C6_MissingTimeSeriesIsNone ==
    (Finished /\ Fetched /\ ~HasBlocks(data))
        => /\ result = "none"
           /\ exc \in {"IndexError", "KeyError"}
           /\ df = <<>>

C6_Witness ==
    /\ result = "none" /\ pc = "temp_block" /\ exc = "KeyError"
    /\ Len(data) = 1
    /\ "timeSeries" \notin DOMAIN data[1]

LacksWeatherKey(d) == ~WeatherKeysPresent(d)

LacksTempKey(d) ==
    "timeDefines" \notin DOMAIN TBlock(d) \/ "areas" \notin DOMAIN TBlock(d)

\* C7 as stated: a document lacking timeDefines, areas or weatherCodes in
\* either block, or with an empty areas, never produces a row sequence.
C7_Original ==
    (Finished /\ Fetched /\ HasBlocks(data)
       /\ (LacksWeatherKey(data) \/ LacksTempKey(data) \/ TempAreasEmpty(data)))
        => result # "table"

\* C7 as amended: a document lacking timeDefines, areas or weatherCodes in
\* the weather block, or with an empty areas in either block, ends with None
\* and no rows; a temperature block lacking timeDefines or areas is read as
\* empty, so a document whose weather block is well-formed still yields its
\* table, with the sentinel in both temperature fields of every row.
C7_WeatherKeysRequired ==
    /\ (Finished /\ Fetched /\ HasBlocks(data)
          /\ (LacksWeatherKey(data) \/ TempAreasEmpty(data)))
        => /\ result = "none"
           /\ exc \in {"IndexError", "KeyError"}
           /\ df = <<>>
    /\ (Finished /\ Fetched /\ HasBlocks(data) /\ LacksTempKey(data)
          /\ "publishingOffice" \in DOMAIN data[1]
          /\ WeatherKeysPresent(data)
          /\ Len(WCodes(data)) >= Len(WTD(data))
          /\ AllDates(WTD(data)))
        => /\ result = "table"
           /\ Len(df) = Len(WTD(data))
           /\ \A k \in 1..Len(df) : df[k].minTemp = "-" /\ df[k].maxTemp = "-"

C7_Witness ==
    /\ result = "none" /\ pc = "weather_block" /\ exc = "KeyError"
    /\ HasBlocks(data)
    /\ "areas" \in DOMAIN WBlock(data) /\ Len(WBlock(data).areas) = 1
    /\ "weatherCodes" \notin DOMAIN WBlock(data).areas[1]

\* C8: when the row loop reaches a weather time-define that is no date, the
\* call ends with None.
C8_UnparsableDateIsNone ==
    (Finished /\ pc = "row_loop" /\ i < Len(weather_time_defines)
       /\ weather_time_defines[i + 1] \notin DateStrings)
        => result = "none"

\* C9: when block 0's weatherCodes is shorter than its timeDefines, the row
\* loop ends the call with None at index len(weatherCodes), and no table is
\* made.
C9_ShortCodesIsNone ==
    (Finished /\ pc \in {"row_loop", "frame", "done"}
       /\ Len(weather_codes) < Len(weather_time_defines))
        => /\ result = "none"
           /\ pc = "row_loop"
           /\ i = Len(weather_codes)
           /\ df = <<>>

\* C10 as stated: a returned table has len(weatherCodes) rows, and
\* weatherCodes and timeDefines of block 0 have the same length.
C10_Original ==
    result = "table" =>
        /\ Len(df) = Len(WCodes(data))
        /\ Len(WCodes(data)) = Len(WTD(data))

\* C10 as amended: a returned table has len(timeDefines) rows of block 0,
\* and weatherCodes is at least that long: shorter weatherCodes never yield
\* a table, longer ones do, their surplus codes ignored.
C10_RowsEqualTimeDefines ==
    /\ result = "table" =>
          /\ Len(df) = Len(weather_time_defines)
          /\ weather_time_defines = WTD(data)
          /\ Len(WCodes(data)) >= Len(df)
    /\ (Fetched /\ HasBlocks(data) /\ WeatherKeysPresent(data)
          /\ Len(WCodes(data)) < Len(WTD(data)))
        => result # "table"

C10_Witness ==
    /\ result = "table"
    /\ Len(df) = 1
    /\ Len(WCodes(data)) = 2

====
